---- MODULE Spec2Model ----
(***************************************************************************)
(* lfpsplitter.c: the container parser (parse_section), the depth table    *)
(* decoder (depth_string) and the extraction driver (main).                *)
(*                                                                         *)
(* Buffers are sequences of bytes; a C offset o is element o+1.  A pointer *)
(* into the input buffer is the offset from its start.  A uint32_t is the  *)
(* pair [hi, lo] of its 16-bit halves, so that every value 0 .. 2^32-1 is  *)
(* kept exactly.                                                           *)
(***************************************************************************)
EXTENDS Integers, Sequences, FiniteSets, TLC

VARIABLES
    lfp,          \* main: the loaded file (bytes)
    pad,          \* where in lfp the zero run under test lies: offset and length
    oom,          \* environment: the allocator may return NULL for a non-empty request
    pc,           \* main: position in the driver
    ptr,          \* main: ptr, as an offset into lfp
    len,          \* main: len (int), the remaining length
    sections,     \* main: sections[], the records stored so far
    num_sections, \* main: num_sections
    i,            \* main: i
    call,         \* what the last parse_section call did
    depth,        \* what the depth_string call did
    outputs,      \* what was handed to save_data, in order
    heap,         \* live heap blocks
    frees,        \* free() calls, in order
    report        \* diagnostics printed by main

vars == <<lfp, pad, oom, pc, ptr, len, sections, num_sections, i, call, depth,
          outputs, heap, frees, report>>

(***************************************************************************)
(* Program constants                                                       *)
(***************************************************************************)
SHA1_LENGTH == 45
MAGIC_LENGTH == 12
BLANK_LENGTH == 35
SizeofUint32 == 4
SignatureLength == 8
Capacity == 100
ValSize == 20
\* MAGIC_LENGTH+sizeof(uint32_t)+SHA1_LENGTH+BLANK_LENGTH
HeaderSize == MAGIC_LENGTH + SizeofUint32 + SHA1_LENGTH + BLANK_LENGTH
\* MAGIC_LENGTH+sizeof(uint32_t), the primary header main skips
PrimarySize == MAGIC_LENGTH + SizeofUint32

(***************************************************************************)
(* Bounds of the model                                                     *)
(***************************************************************************)
MaxRecords == 4
MaxPad == 2
MaxPayload == 9

\* the null pointer
NULL == [kind |-> "null", idx |-> 0]
Min(a, b) == IF a < b THEN a ELSE b
Max(a, b) == IF a > b THEN a ELSE b
Rep(b, n) == [k \in 1..n |-> b]

(***************************************************************************)
(* uint32_t arithmetic                                                     *)
(***************************************************************************)
U32(h, l) == [hi |-> h, lo |-> l]
\* ntohl(*(uint32_t *)p): the four bytes at p, first byte most significant
Ntohl(b) == U32(b[1] * 256 + b[2], b[3] * 256 + b[4])
\* conversion of an int to uint32_t (modulo 2^32)
IntToU32(n) ==
    IF n >= 0 THEN U32(n \div 65536, n % 65536)
    ELSE U32(65535 - ((-n - 1) \div 65536), 65535 - ((-n - 1) % 65536))
U32Less(a, b) == a.hi < b.hi \/ (a.hi = b.hi /\ a.lo < b.lo)
\* the value of a uint32_t below 2^31 as an integer
U32ToInt(u) == IF u.hi < 32768 THEN u.hi * 65536 + u.lo ELSE 2147483647

(***************************************************************************)
(* lfp_section_t (lfpsplitter.h): type[4], len, sha1[45], data.  blk is    *)
(* the heap block of the struct, datablk the block data points to.         *)
(***************************************************************************)
lfp_section_t(type, slen, sha1, data, k) ==
    [type |-> type, len |-> slen, sha1 |-> sha1, data |-> data,
     blk |-> [kind |-> "section", idx |-> k],
     datablk |-> [kind |-> "data", idx |-> k]]

(***************************************************************************)
(* lfp_file_check                                                          *)
(***************************************************************************)
Magic == <<137, 76, 70, 80, 13, 10, 26, 10>>
lfp_file_check(buf, n) ==
    n > SignatureLength /\ SubSeq(buf, 1, SignatureLength) = Magic

(***************************************************************************)
(* parse_section                                                           *)
(***************************************************************************)
\* *p for an offset p; outside the buffer the value read is not determined
\* by the program (v)
ByteAt(buf, p, v) == IF p >= 0 /\ p < Len(buf) THEN buf[p + 1] ELSE v

\* a skip that gives up after one zero byte
SkipCountOne(buf, p, n, v) == IF ByteAt(buf, p, v) = 0 /\ n # 0 THEN 1 ELSE 0

\* while (*ptr == '\0' && len) { ptr++; len--; } : the number of iterations
RECURSIVE SkipCount(_, _, _, _)
SkipCount(buf, p, n, v) ==
    IF ByteAt(buf, p, v) = 0 /\ n # 0 THEN 1 + SkipCount(buf, p + 1, n - 1, v)
    ELSE 0

\* the header test with < for <=
HeaderMissingStrict(n) == n < HeaderSize

\* len <= MAGIC_LENGTH+sizeof(uint32_t)+SHA1_LENGTH+BLANK_LENGTH
HeaderMissing(n) == n <= HeaderSize

\* the length test made on the length before the header was taken off
DeclaredExceedsEarly(n, slen) == U32Less(IntToU32(n + HeaderSize), slen)

\* len < section->len, the int converted to the unsigned type of the field
DeclaredExceeds(n, slen) == U32Less(IntToU32(n), slen)

\* the n bytes a memcpy reads from offset p
Bytes(buf, p, n, v) == [j \in 1..n |-> ByteAt(buf, p + j - 1, v)]

\* One call parse_section(&ptr, &len) on buffer buf with *lfp = p0 and
\* *in_len = n0; k numbers the call, callocOk and mallocOk are what the two
\* allocations return, v is the value of a byte read outside the buffer.
\* Result: the section or NULL, the updated pair, and what the call touched:
\* lo..hi the offsets examined or copied, start and avail the pair after the
\* zero run, the heap blocks allocated and released, and whether
\* malloc(section->len) was called.
ParseSection(buf, p0, n0, k, callocOk, mallocOk, v) ==
    LET blk == [kind |-> "section", idx |-> k]
        dblk == [kind |-> "data", idx |-> k]
        none == [section |-> NULL, ptr |-> p0, len |-> n0, entryPtr |-> p0,
                 entryLen |-> n0, lo |-> p0, hi |-> p0 - 1, header |-> FALSE,
                 declared |-> U32(0, 0), after |-> 0, allocs |-> {},
                 released |-> {}, mallocCalled |-> FALSE, why |-> "calloc",
                 start |-> p0, avail |-> n0]
    IN  IF ~callocOk THEN none
        ELSE
        LET s == SkipCount(buf, p0, n0, v)
            p1 == p0 + s
            n1 == n0 - s
            \* the loop condition read *ptr at p0 .. p0+s
            skipped == [none EXCEPT !.hi = p1, !.allocs = {blk}, !.start = p1,
                                    !.avail = n1]
        IN  IF HeaderMissing(n1)
            THEN [skipped EXCEPT !.released = {blk}, !.why = "header"]
            ELSE
            LET type == Bytes(buf, p1, 4, v)
                p2 == p1 + MAGIC_LENGTH
                n2 == n1 - MAGIC_LENGTH
                slen == Ntohl(Bytes(buf, p2, SizeofUint32, v))
                p3 == p2 + SizeofUint32
                n3 == n2 - SizeofUint32
                sha1 == Bytes(buf, p3, SHA1_LENGTH, v)
                p4 == p3 + SHA1_LENGTH + BLANK_LENGTH
                n4 == n3 - (SHA1_LENGTH + BLANK_LENGTH)
                hdr == [skipped EXCEPT !.header = TRUE, !.declared = slen,
                                       !.after = n4,
                                       !.hi = Max(p1, p3 + SHA1_LENGTH - 1)]
            IN  IF DeclaredExceeds(n4, slen)
                THEN [hdr EXCEPT !.released = {blk}, !.why = "length"]
                ELSE IF ~mallocOk
                THEN [hdr EXCEPT !.released = {blk}, !.why = "malloc",
                                 !.mallocCalled = TRUE]
                ELSE
                LET m == U32ToInt(slen)
                    data == Bytes(buf, p4, m, v)
                IN  [hdr EXCEPT !.section = lfp_section_t(type, slen, sha1, data, k),
                                !.ptr = p4 + m, !.len = n4 - m,
                                !.hi = Max(hdr.hi, p4 + m - 1),
                                !.allocs = {blk, dblk}, !.mallocCalled = TRUE,
                                !.why = "ok"]

(***************************************************************************)
(* depth_string                                                            *)
(***************************************************************************)
\* the bit patterns of the least floats >= 10^1 .. 10^11
Pow10Bits ==
    <<U32(16672, 0), U32(17096, 0), U32(17530, 0), U32(17948, 16384),
      U32(18371, 20480), U32(18804, 9216), U32(19224, 38528),
      U32(19646, 48160), U32(20078, 27432), U32(20501, 761),
      U32(20922, 17336)>>

\* strlen(val) after snprintf(val, 20, "%f\n", *(float *)b): b holds the four
\* bytes of the sample, least significant first
FormatLen(b) ==
    LET hi == b[4] * 256 + b[3]
        lo == b[2] * 256 + b[1]
        sign == IF hi >= 32768 THEN 1 ELSE 0
        mag == U32(hi % 32768, lo)
        expo == mag.hi \div 128
        digits == 1 + Cardinality({k \in 1..Len(Pow10Bits) :
                                      ~U32Less(mag, Pow10Bits[k])})
        \* "inf" or "nan", else digits "." six decimals; then the newline
        full == IF expo = 255 THEN sign + 3 + 1 ELSE sign + digits + 1 + 6 + 1
    IN  Min(full, ValSize - 1)

RECURSIVE SumLen(_, _)
SumLen(lines, n) == IF n = 0 THEN 0 ELSE lines[n].n + SumLen(lines, n - 1)

\* depth_string(data, &datalen, n); mallocOk is what malloc(filelen) returns.
\* lines[s] stands for the first lines[s].n characters of the rendering of
\* sample s; written is the extent of the bytes stored into depth, readHi the
\* last offset read from data.
DepthString(data, n, mallocOk) ==
    LET filelen == (ValSize * n) \div 4
        count == n \div 4
        lines == [s \in 1..count |->
                    [sample |-> SubSeq(data, 4 * s - 3, 4 * s),
                     n |-> FormatLen(SubSeq(data, 4 * s - 3, 4 * s))]]
        datalen == SumLen(lines, count)
    IN  IF ~mallocOk
        THEN [ret |-> NULL, filelen |-> filelen, lines |-> <<>>, datalen |-> 0,
              written |-> 0, readHi |-> -1, inlen |-> n]
        ELSE [ret |-> [kind |-> "depth", idx |-> 0], filelen |-> filelen, lines |-> lines,
              datalen |-> datalen, written |-> Max(1, datalen),
              readHi |-> 4 * count - 1, inlen |-> n]

(***************************************************************************)
(* Input containers                                                        *)
(***************************************************************************)
\* float samples, least significant byte first:
\* 0.0, FLT_MAX, -inf, -1000000.0, 1.0, 99999997952.0
Fills ==
    <<(<<0, 0, 0, 0>>), (<<255, 255, 127, 127>>), (<<0, 0, 128, 255>>),
      (<<0, 36, 116, 201>>), (<<0, 0, 128, 63>>), (<<183, 67, 186, 81>>)>>

PayloadLen(p, r) == (p + r + 1) % (MaxPayload + 1)
Payload(p, r, n) ==
    [j \in 1..n |-> Fills[((p + r + ((j - 1) \div 4)) % Len(Fills)) + 1][((j - 1) % 4) + 1]]

\* a record header: 12-byte magic region, big-endian length, 45-byte hash,
\* 35 blank bytes
Header(r, d) ==
    <<137, 76, 70, 77 + (r % 2), 13, 10, 26, 10, 0, 0, 0, 0>> \o d
    \o <<115, 104, 97, 49, 45>> \o Rep(48 + (r % 10), SHA1_LENGTH - 5)
    \o Rep(0, BLANK_LENGTH)
BE(n) == <<0, 0, n \div 256, n % 256>>
Record(p, r) == Header(r, BE(PayloadLen(p, r))) \o Payload(p, r, PayloadLen(p, r))

\* what follows the well-formed records
Endings == {"none", "over1", "over64k", "huge", "short", "exact"}
Ending(e, r) ==
    CASE e = "none" -> <<>>
      [] e = "over1" -> Header(r, BE(2)) \o <<7>>
      [] e = "over64k" -> Header(r, <<0, 1, 0, 0>>) \o <<7>>
      [] e = "huge" -> Header(r, <<255, 255, 255, 255>>) \o <<7>>
      [] e = "short" -> SubSeq(Header(r, BE(0)), 1, HeaderSize \div 2)
      [] e = "exact" -> Header(r, BE(0))

\* item r of container d: record r, or what ends the container when r = d.n;
\* k zero bytes come before item number d.at
Item(d, r, k) ==
    (IF r = d.at THEN Rep(0, k) ELSE <<>>)
    \o (IF r = d.n THEN Ending(d.ending, r) ELSE Record(d.p, r))

RECURSIVE Items(_, _, _, _)
\* items from .. to, in order
Items(d, from, to, k) ==
    IF from = to THEN Item(d, from, k)
    ELSE LET mid == (from + to) \div 2
         IN  Items(d, from, mid, k) \o Items(d, mid + 1, to, k)

Primary == <<0, 0, 0, 1, 0, 0, 0, 0>>
Container(d, k) ==
    (IF d.sig THEN Magic ELSE <<137, 76, 70, 77, 13, 10, 26, 10>>)
    \o SubSeq(Primary, 1, d.hdr)
    \o (IF d.hdr = Len(Primary) THEN Items(d, 0, d.n, k) ELSE <<>>)

\* the offset of item d.at in the container
OffsetOf(d) ==
    Len(Magic) + d.hdr + (IF d.at = 0 THEN 0 ELSE Len(Items(d, 0, d.at - 1, 0)))

Desc(sig, hdr, n, p, at, k, e) ==
    [sig |-> sig, hdr |-> hdr, n |-> n, p |-> p, at |-> at, k |-> k, ending |-> e]

\* well-formed containers of every payload length
Plain ==
    {Desc(TRUE, Len(Primary), n, p, 0, 0, "none") :
        n \in 0..MaxRecords, p \in 0..MaxPayload}
\* well-formed containers with a zero run before one record, or at the end
Padded ==
    {Desc(TRUE, Len(Primary), n, p, at, k, "none") :
        n \in 0..MaxRecords, p \in {0, MaxPayload - 1, MaxPayload},
        at \in 0..MaxRecords, k \in 1..MaxPad}
\* containers whose last record is truncated or declares too much
Broken ==
    {Desc(TRUE, Len(Primary), n, 0, n, k, e) :
        n \in 0..MaxRecords, k \in {0, MaxPad}, e \in Endings}
\* files that end inside the primary header, or carry another signature
Stunted ==
    {Desc(TRUE, h, 0, 0, 0, 0, "none") : h \in 0..(Len(Primary) - 1)}
    \cup {Desc(FALSE, Len(Primary), 3, 0, 0, 0, "none")}
Inputs ==
    {d \in Plain \cup Padded \cup Broken \cup Stunted : d.at <= d.n}
\* containers with as many records as sections[] holds, and one more
CapacityInputs ==
    {Desc(TRUE, Len(Primary), n, 0, 0, 0, e) :
        n \in {2, 3, Capacity - 1, Capacity, Capacity + 1}, e \in {"none", "huge"}}
    \cup Stunted

(***************************************************************************)
(* main                                                                    *)
(***************************************************************************)
LfpBlock == [kind |-> "lfp", idx |-> 0]
PrefixBlock == [kind |-> "prefix", idx |-> 0]
DepthBlock == [kind |-> "depth", idx |-> 0]
NoCall == ParseSection(<<>>, 0, 0, 0, FALSE, FALSE, 0)
NoDepth == [DepthString(<<>>, 0, FALSE) EXCEPT !.ret = [kind |-> "none", idx |-> 0]]

\* what an allocation of a non-empty block may return
AllocOk == IF oom THEN BOOLEAN ELSE {TRUE}
\* a byte read outside the buffer
Stray == {0, 255}

\* the state after load_file returned the file's bytes
InitWith(D, O) ==
    /\ \E d \in D :
          /\ lfp = Container(d, d.k)
          /\ pad = [off |-> OffsetOf(d), k |-> d.k]
    /\ oom \in O
    /\ pc = "check"
    /\ ptr = 0
    /\ len = Len(lfp)
    /\ sections = <<>>
    /\ num_sections = 0
    /\ i = 0
    /\ call = NoCall
    /\ depth = NoDepth
    /\ outputs = <<>>
    /\ heap = {LfpBlock}
    /\ frees = <<>>
    /\ report = {}

\* every allocation may fail
Init == InitWith(Inputs, {TRUE})
\* memory is short only in the runs on the small containers
InitCapacity ==
    \/ InitWith({d \in CapacityInputs : d.n < Capacity - 1}, BOOLEAN)
    \/ InitWith({d \in CapacityInputs : d.n >= Capacity - 1}, {FALSE})

\* lines 173-185: the signature check and strdup
Check ==
    /\ pc = "check"
    /\ IF ~lfp_file_check(lfp, len)
       THEN /\ report' = report \cup {"not an lfp"}
            /\ heap' = heap \ {LfpBlock}
            /\ frees' = Append(frees, LfpBlock)
            /\ pc' = "exit1"
       ELSE \E ok \in AllocOk :
            IF ok
            THEN /\ heap' = heap \cup {PrefixBlock}
                 /\ pc' = "header"
                 /\ UNCHANGED <<frees, report>>
            ELSE /\ heap' = heap \ {LfpBlock}
                 /\ frees' = Append(frees, LfpBlock)
                 /\ pc' = "exit1"
                 /\ UNCHANGED report
    /\ UNCHANGED <<lfp, pad, oom, ptr, len, sections, num_sections, i, call,
                   depth, outputs>>

\* lines 187-191: move past the first header
SkipPrimaryHeader ==
    /\ pc = "header"
    /\ ptr' = 0 + PrimarySize
    /\ len' = len - PrimarySize
    /\ pc' = "loop"
    /\ UNCHANGED <<lfp, pad, oom, sections, num_sections, i, call, depth,
                   outputs, heap, frees, report>>

\* a loop that goes on after a failed call
AfterCallContinue(section) == "loop"

\* line 195: if (!section) break;
AfterCall(section) == IF section = NULL THEN "classify" ELSE "loop"

\* the outcomes of one parse_section call of the loop
Calls ==
    {r \in {ParseSection(lfp, ptr, len, num_sections, c, m, v) :
               c \in AllocOk, m \in BOOLEAN, v \in Stray} :
        \* malloc(0) may return NULL; malloc(n) does only when memory is short
        r.why = "malloc" => (oom \/ r.declared = U32(0, 0))}

\* lines 193-199: one iteration of the loop, the record stored in sections[]
LoopParse ==
    /\ pc = "loop"
    /\ len > 0
    /\ \E r \in Calls :
          /\ r.section # NULL => num_sections < Capacity
          /\ call' = r
          /\ heap' = (heap \cup r.allocs) \ r.released
          /\ frees' = IF r.released = {} THEN frees
                      ELSE Append(frees, [kind |-> "section", idx |-> num_sections])
          /\ pc' = AfterCall(r.section)
          /\ IF r.section = NULL
             THEN UNCHANGED <<ptr, len, sections, num_sections>>
             ELSE /\ ptr' = r.ptr
                  /\ len' = r.len
                  /\ sections' = Append(sections, r.section)
                  /\ num_sections' = num_sections + 1
    /\ UNCHANGED <<lfp, pad, oom, i, depth, outputs, report>>

\* line 197 with num_sections >= 100: the store is outside sections[]
LoopParseOverflow ==
    /\ pc = "loop"
    /\ len > 0
    /\ \E r \in Calls :
          /\ r.section # NULL
          /\ num_sections >= Capacity
          /\ call' = r
          /\ heap' = (heap \cup r.allocs) \ r.released
          /\ ptr' = r.ptr
          /\ len' = r.len
          /\ num_sections' = num_sections + 1
    /\ pc' = "undefined"
    /\ UNCHANGED <<lfp, pad, oom, sections, i, depth, outputs, frees, report>>

\* line 193: the loop condition fails
LoopExit ==
    /\ pc = "loop"
    /\ ~(len > 0)
    /\ pc' = "classify"
    /\ UNCHANGED <<lfp, pad, oom, ptr, len, sections, num_sections, i, call,
                   depth, outputs, heap, frees, report>>

\* lines 201, 234-236
Classify ==
    /\ pc = "classify"
    /\ IF num_sections > 2
       THEN pc' = "metadata" /\ UNCHANGED <<report, i>>
       ELSE pc' = "free" /\ report' = report \cup {"no images found"} /\ i' = 0
    /\ UNCHANGED <<lfp, pad, oom, ptr, len, sections, num_sections, call,
                   depth, outputs, heap, frees>>

\* save_data(data, n, name): the attempt, and what main prints for its result
Attempt(name, number, data, n) ==
    [name |-> name, number |-> number, data |-> data, len |-> n]
Saved(ok) == IF ok THEN "Saved" ELSE "Failed to save"

\* an image numbered from its index less one
ImageNumberOff(idx) == idx - 1

\* line 227: the number in the image's name
ImageNumber(idx) == idx - 2

\* lines 206-212
SaveMetadata ==
    /\ pc = "metadata"
    /\ outputs' = Append(outputs, Attempt("metadata", 0, sections[1].data,
                                          U32ToInt(sections[1].len)))
    /\ \E ok \in BOOLEAN : report' = report \cup {Saved(ok)}
    /\ pc' = "depth"
    /\ UNCHANGED <<lfp, pad, oom, ptr, len, sections, num_sections, i, call,
                   depth, heap, frees>>

\* lines 214-223
SaveDepth ==
    /\ pc = "depth"
    /\ \E m \in BOOLEAN :
          LET n == U32ToInt(sections[2].len)
              d == DepthString(sections[2].data, n, m)
          IN  /\ ~m => (oom \/ d.filelen = 0)
              /\ depth' = d
              /\ IF d.ret # NULL
                 THEN /\ heap' = heap \cup {DepthBlock}
                      /\ outputs' = Append(outputs,
                                           Attempt("depth", 0, d.lines, d.datalen))
                      /\ \E ok \in BOOLEAN : report' = report \cup {Saved(ok)}
                 ELSE UNCHANGED <<heap, outputs, report>>
    /\ i' = 2
    /\ pc' = "images"
    /\ UNCHANGED <<lfp, pad, oom, ptr, len, sections, num_sections, call, frees>>

\* lines 226-233, one iteration
SaveImage ==
    /\ pc = "images"
    /\ i < num_sections
    /\ outputs' = Append(outputs, Attempt("image", ImageNumber(i), sections[i + 1].data,
                                          U32ToInt(sections[i + 1].len)))
    /\ \E ok \in BOOLEAN : report' = report \cup {Saved(ok)}
    /\ i' = i + 1
    /\ UNCHANGED <<lfp, pad, oom, pc, ptr, len, sections, num_sections, call,
                   depth, heap, frees>>

\* line 226: the loop condition fails
ImagesDone ==
    /\ pc = "images"
    /\ ~(i < num_sections)
    /\ i' = 0
    /\ pc' = "free"
    /\ UNCHANGED <<lfp, pad, oom, ptr, len, sections, num_sections, call,
                   depth, outputs, heap, frees, report>>

\* lines 238-240, one iteration: free(sections[i])
FreeSection ==
    /\ pc = "free"
    /\ i < num_sections
    /\ heap' = heap \ {sections[i + 1].blk}
    /\ frees' = Append(frees, sections[i + 1].blk)
    /\ i' = i + 1
    /\ UNCHANGED <<lfp, pad, oom, pc, ptr, len, sections, num_sections, call,
                   depth, outputs, report>>

\* lines 242-244
Finish ==
    /\ pc = "free"
    /\ ~(i < num_sections)
    /\ heap' = heap \ {PrefixBlock, LfpBlock}
    /\ frees' = frees \o <<PrefixBlock, LfpBlock>>
    /\ pc' = "done"
    /\ UNCHANGED <<lfp, pad, oom, ptr, len, sections, num_sections, i, call,
                   depth, outputs, report>>

\* lines 187-199 when no allocation fails: the records the loop collects
RECURSIVE ParseLoop(_, _, _, _)
ParseLoop(buf, p, n, acc) ==
    IF n > 0
    THEN LET r == ParseSection(buf, p, n, Len(acc), TRUE, TRUE, 0)
         IN  IF r.section = NULL THEN acc
             ELSE ParseLoop(buf, r.ptr, r.len, Append(acc, r.section))
    ELSE acc
ParseAll(buf) == ParseLoop(buf, PrimarySize, Len(buf) - PrimarySize, <<>>)

Next ==
    \/ Check
    \/ SkipPrimaryHeader
    \/ LoopParse
    \/ LoopExit
    \/ Classify
    \/ SaveMetadata
    \/ SaveDepth
    \/ SaveImage
    \/ ImagesDone
    \/ FreeSection
    \/ Finish

NextCapacity == Next \/ LoopParseOverflow

Spec == Init /\ [][Next]_vars
\* main runs to its end: no step is postponed forever
FairSpec == Spec /\ WF_vars(Next)
SpecCapacity == InitCapacity /\ [][NextCapacity]_vars
(***************************************************************************)
(* Properties                                                              *)
(***************************************************************************)
Parsing == pc \notin {"check", "exit1", "header"}
Finished == pc \in {"free", "done"}
\* a uint32_t greater than a non-negative int
Above(u, n) == u.hi > n \div 65536 \/ (u.hi = n \div 65536 /\ u.lo > n % 65536)
Zero32 == U32(0, 0)

\* C1: every byte a parse_section call examines or copies lies inside
\* [cursor, cursor + remaining) of the pair it was handed, the zero-run skip
\* included.
C1_ReadsInsideRemaining ==
    call.entryLen > 0 =>
        /\ call.lo >= call.entryPtr
        /\ call.hi < call.entryPtr + call.entryLen

\* C2: a header whose declared length is greater than what remains after the
\* header makes parse_section return NULL, and malloc is not called for the
\* payload nor anything copied: no data block, the pair left as it was.
C2_OversizedDeclarationRejected ==
    (call.header /\ Above(call.declared, call.after)) =>
        /\ call.section = NULL
        /\ ~call.mallocCalled
        /\ \A b \in heap : b.kind = "data" => b.idx < num_sections
        /\ call.ptr = call.entryPtr
        /\ call.len = call.entryLen
C2_Witness ==
    /\ call.header
    /\ call.declared = U32(65535, 65535)
    /\ call.why = "length"
    /\ num_sections >= 1

\* C3: once the signature check passed, the consumed length never exceeds
\* the buffer length: the remaining length is never negative.
C3_ConsumedWithinBuffer ==
    Parsing => (len >= 0 /\ ptr <= Len(lfp))

\* C4: the record loop terminates: a stored record lowers the remaining
\* length by at least the header size, a failed call ends the loop, and the
\* loop is always left for the output and cleanup phase.
C4_LoopTerminates ==
    /\ [][(pc = "loop" /\ num_sections' = num_sections + 1)
            => len' <= len - HeaderSize]_vars
    /\ [][(pc = "loop" /\ len > 0 /\ num_sections' = num_sections)
            => pc' = "classify"]_vars
    /\ (pc = "loop") ~> (pc = "classify")
    /\ (pc = "classify") ~> (pc = "done")
C4_Witness ==
    /\ pc = "classify"
    /\ num_sections = MaxRecords
    /\ len = 0

\* C5: a run of zero bytes inserted before a record leaves the parsed records
\* as they are: the records collected from the padded container are those of
\* the container without the run, one by one, and as many of them unless an
\* allocation failed.
\* the container without the zero run
Unpadded ==
    SubSeq(lfp, 1, pad.off) \o SubSeq(lfp, pad.off + pad.k + 1, Len(lfp))
PaddedAtEnd == pad.k > 0 /\ pad.off + pad.k = Len(lfp)
C5_PaddingTransparent ==
    (Parsing /\ ~PaddedAtEnd) =>
        LET ref == ParseAll(Unpadded)
        IN  /\ num_sections <= Len(ref)
            /\ \A k \in 1..Min(num_sections, Len(sections)) : sections[k] = ref[k]
            /\ (pc # "loop" /\ call.why \notin {"calloc", "malloc"})
                  => num_sections = Len(ref)
C5_Witness ==
    /\ pc = "classify"
    /\ ~PaddedAtEnd
    /\ pad.k = MaxPad
    /\ num_sections >= 3
    /\ sections[3].data # <<>>

\* the call found a whole header declaring length 0 after the zero run, and
\* its allocations did not fail
ZeroLengthHeader ==
    /\ call.entryLen > 0
    /\ call.why \notin {"calloc", "malloc"}
    /\ call.avail >= HeaderSize
    /\ Ntohl(Bytes(lfp, call.start + MAGIC_LENGTH, SizeofUint32, 0)) = Zero32
ZeroLengthParsed ==
    /\ call.section # NULL
    /\ call.section.data = <<>>
    /\ call.section.len = Zero32
    /\ call.ptr = call.start + HeaderSize
    /\ call.len = call.avail - HeaderSize

Handed(recs, withDepth) ==
    <<Attempt("metadata", 0, recs[1].data, U32ToInt(recs[1].len))>>
    \o (IF withDepth
        THEN LET d == DepthString(recs[2].data, U32ToInt(recs[2].len), TRUE)
             IN  <<Attempt("depth", 0, d.lines, d.datalen)>>
        ELSE <<>>)
    \o [k \in 1..(Len(recs) - 2) |->
          Attempt("image", k - 1, recs[k + 2].data, U32ToInt(recs[k + 2].len))]

\* C7 as stated: with three or more records the outputs handed to storage
\* are the metadata, the depth text and the images 0, 1, ..., each once and
\* in that order, whatever the writes return; with fewer, nothing is handed
\* and "no images found" is reported.
C7_OutputsByPosition ==
    Finished =>
        IF num_sections >= 3
        THEN outputs = Handed(sections, TRUE)
        ELSE outputs = <<>> /\ "no images found" \in report

\* C7 as amended: the depth output is handed only when depth_string
\* returned a buffer; when it returned NULL the depth output is left out and
\* the others are handed all the same.
C7_OutputsByPositionUnlessNoDepth ==
    Finished =>
        IF num_sections >= 3
        THEN /\ outputs = Handed(sections, depth.ret # NULL)
             /\ "no images found" \notin report
        ELSE outputs = <<>> /\ "no images found" \in report
C7_Witness ==
    /\ pc = "done"
    /\ num_sections = MaxRecords
    /\ Len(outputs) = MaxRecords
    /\ "Failed to save" \in report
    /\ outputs[MaxRecords].number = MaxRecords - 3

\* C8: when main finishes, every record parse_section returned has been
\* released, the struct and the payload buffer it owns each freed exactly
\* once, and no block of a failed call is left.
Times(b) == Cardinality({k \in 1..Len(frees) : frees[k] = b})
C8_RecordsReleased ==
    pc = "done" =>
        /\ \A k \in 1..num_sections :
              /\ Times(sections[k].blk) = 1
              /\ Times(sections[k].datablk) = 1
        /\ \A b \in heap : b.kind \notin {"section", "data"}

\* C9: the loop stores every record at an index below the 100 slots of
\* sections[]; the number of stored records never exceeds 100.
C9_StoreWithinCapacity ==
    num_sections <= Capacity

\* C10: depth_string writes only inside the 20*len/4 bytes it allocated,
\* reads only inside the len payload bytes, renders floor(len/4) samples and
\* reports a length no greater than the allocation.
C10_DepthInsideBuffers ==
    depth.ret \notin {NULL, NoDepth.ret} =>
        /\ depth.written <= depth.filelen
        /\ depth.readHi < depth.inlen
        /\ Len(depth.lines) = depth.inlen \div 4
        /\ depth.datalen <= depth.filelen
====
